---- MODULE Spec2Model ----
(***************************************************************************)
(* Model of python-mcp-server/server.py: a script that constructs a        *)
(* FastMCP server object, registers the function get_employee_info on it   *)
(* as a tool, and ends.  The function builds a two-entry dict from its     *)
(* argument.                                                               *)
(*                                                                         *)
(* Python text is modelled as a sequence of code points, Python objects    *)
(* as records [type, items] living in a heap indexed by object identity.   *)
(***************************************************************************)
EXTENDS Integers, Sequences, FiniteSets, TLC

\* ---------------------------------------------------------------- bounds
NumCallers == 2
MaxCalls == 3

Callers == 1..NumCallers

\* ------------------------------------------------------------ input texts
\* "" ; "José O'Brien" ; " A\ud83d " (blanks, upper case, lone surrogate)
EmptyText == << >>
JoseOBrien == <<74, 111, 115, 233, 32, 79, 39, 66, 114, 105, 101, 110>>
Malformed == <<32, 65, 55357, 32>>
Names == {EmptyText, JoseOBrien, Malformed}

\* the write a caller does to a dict it owns: rec["salary"] = 0
Updates == {<<"salary", 0>>}

\* ------------------------------------------------------------------ state
VARIABLES
    script_pc,       \* position of the module-level code of server.py
    module_globals,  \* names bound in the module namespace
    mcp,             \* the FastMCP instance, or NoServer before line 2
    pc,              \* per caller: "idle", "line6", "returned", "raised"
    arg,             \* per caller: the text it passed
    name,            \* per caller: the parameter `name` of its frame
    result,          \* per caller: identity of the object it got back (0: none)
    overlapped,      \* per caller: another caller was in the body when it returned
    heap,            \* object identity -> current contents of the object
    log              \* history of completed invocations

vars == <<script_pc, module_globals, mcp, pc, arg, name, result, overlapped, heap, log>>

NoServer == [name |-> "", tools |-> {}, running |-> FALSE]

\* ------------------------------------------------------- the tool function
Returned(v) == [kind |-> "return", value |-> v]
Raised(e) == [kind |-> "raise", value |-> [type |-> e, items |-> << >>]]

Dict(items) == [type |-> "dict", items |-> items]

get_employee_info_lower(n) ==
    Returned(Dict([employee_name |->
                       [i \in DOMAIN n |-> IF n[i] \in 65..90 THEN n[i] + 32 ELSE n[i]],
                   salary |-> 5400]))

get_employee_info_paid_by_name(n) ==
    Returned(Dict([employee_name |-> n, salary |-> 5400 + Len(n)]))

get_employee_info_rejects_empty(n) ==
    IF n = << >> THEN Raised("ValueError")
    ELSE Returned(Dict([employee_name |-> n, salary |-> 5400]))

get_employee_info_extra_key(n) ==
    Returned(Dict([employee_name |-> n, salary |-> 5400, currency |-> n]))

\* server.py lines 4-9
get_employee_info(n) ==
    Returned(Dict([employee_name |-> n, salary |-> 5400]))

\* identity of the object a dict display creates: always a new one
NewObject_memoised(h) == IF h = << >> THEN 1 ELSE Len(h)

NewObject(h) == Len(h) + 1

Store(h, id, obj) == IF id > Len(h) THEN Append(h, obj) ELSE [h EXCEPT ![id] = obj]

SetItemIn(obj, k, v) ==
    [obj EXCEPT !.items =
        [x \in DOMAIN obj.items \cup {k} |-> IF x = k THEN v ELSE obj.items[x]]]

InBody == {c \in Callers : pc[c] = "line6"}

\* a caller keeps one reference: the object its latest invocation handed back
Owns(c, id) == id # 0 /\ result[c] = id

\* ------------------------------------------------------------------ Init
Init ==
    /\ script_pc = "line1"
    /\ module_globals = {}
    /\ mcp = NoServer
    /\ pc = [c \in Callers |-> "idle"]
    /\ arg = [c \in Callers |-> << >>]
    /\ name = [c \in Callers |-> << >>]
    /\ result = [c \in Callers |-> 0]
    /\ overlapped = [c \in Callers |-> FALSE]
    /\ heap = << >>
    /\ log = << >>

\* ------------------------------------------------------ module-level code
\* line 1: from mcp.server.fastmcp import FastMCP
ImportFastMCP ==
    /\ script_pc = "line1"
    /\ script_pc' = "line2"
    /\ module_globals' = module_globals \cup {"FastMCP"}
    /\ UNCHANGED <<mcp, pc, arg, name, result, overlapped, heap, log>>

\* line 2: mcp = FastMCP('Python-MCP-Server')
ConstructServer ==
    /\ script_pc = "line2"
    /\ script_pc' = "line3"
    /\ mcp' = [name |-> "Python-MCP-Server", tools |-> {}, running |-> FALSE]
    /\ module_globals' = module_globals \cup {"mcp"}
    /\ UNCHANGED <<pc, arg, name, result, overlapped, heap, log>>

\* lines 3-9: @mcp.tool() def get_employee_info(...); then the file ends
RegisterTool ==
    /\ script_pc = "line3"
    /\ script_pc' = "eof"
    /\ mcp' = [mcp EXCEPT !.tools = @ \cup {"get_employee_info"}]
    /\ module_globals' = module_globals \cup {"get_employee_info"}
    /\ UNCHANGED <<pc, arg, name, result, overlapped, heap, log>>

\* ------------------------------------------------------------ invocations
Invoke_shared_name(c, n) ==
    /\ script_pc = "eof"
    /\ pc[c] \in {"idle", "returned"}
    /\ Len(log) + Cardinality(InBody) < MaxCalls
    /\ pc' = [pc EXCEPT ![c] = "line6"]
    /\ arg' = [arg EXCEPT ![c] = n]
    /\ name' = [d \in Callers |-> n]
    /\ overlapped' = [overlapped EXCEPT ![c] = FALSE]
    /\ UNCHANGED <<script_pc, module_globals, mcp, result, heap, log>>

\* line 4: a caller enters get_employee_info(name = n)
Invoke(c, n) ==
    /\ script_pc = "eof"
    /\ pc[c] \in {"idle", "returned"}
    /\ Len(log) + Cardinality(InBody) < MaxCalls
    /\ pc' = [pc EXCEPT ![c] = "line6"]
    /\ arg' = [arg EXCEPT ![c] = n]
    /\ name' = [name EXCEPT ![c] = n]
    /\ overlapped' = [overlapped EXCEPT ![c] = FALSE]
    /\ UNCHANGED <<script_pc, module_globals, mcp, result, heap, log>>

Complete(c, out) ==
    /\ overlapped' = [overlapped EXCEPT ![c] = InBody # {c}]
    /\ IF out.kind = "return"
       THEN LET id == NewObject(heap) IN
            /\ pc' = [pc EXCEPT ![c] = "returned"]
            /\ result' = [result EXCEPT ![c] = id]
            /\ heap' = Store(heap, id, out.value)
            /\ log' = Append(log, [arg |-> arg[c], id |-> id, value |-> out.value])
       ELSE /\ pc' = [pc EXCEPT ![c] = "raised"]
            /\ log' = Append(log, [arg |-> arg[c], id |-> 0, value |-> out.value])
            /\ UNCHANGED <<result, heap>>

Return_waits_for_others(c) ==
    /\ pc[c] = "line6"
    /\ InBody = {c}
    /\ Complete(c, get_employee_info(name[c]))
    /\ UNCHANGED <<script_pc, module_globals, mcp, arg, name>>

Return_counting(c) ==
    /\ pc[c] = "line6"
    /\ Complete(c, Returned(Dict([employee_name |-> name[c],
                                  salary |-> 5400 + Len(log)])))
    /\ UNCHANGED <<script_pc, module_globals, mcp, arg, name>>

\* lines 6-9: the return statement, the whole body of the function
Return(c) ==
    /\ pc[c] = "line6"
    /\ Complete(c, get_employee_info(name[c]))
    /\ UNCHANGED <<script_pc, module_globals, mcp, arg, name>>

\* a caller writes into a dict it received
SetItem(c, id, k, v) ==
    /\ script_pc = "eof"
    /\ id \in DOMAIN heap
    /\ Owns(c, id)
    /\ heap[id] # SetItemIn(heap[id], k, v)
    /\ heap' = [heap EXCEPT ![id] = SetItemIn(@, k, v)]
    /\ UNCHANGED <<script_pc, module_globals, mcp, pc, arg, name, result, overlapped, log>>

Next ==
    \/ ImportFastMCP
    \/ ConstructServer
    \/ RegisterTool
    \/ \E c \in Callers, n \in Names : Invoke(c, n)
    \/ \E c \in Callers : Return(c)
    \/ \E c \in Callers, id \in 1..MaxCalls, u \in Updates : SetItem(c, id, u[1], u[2])

Spec == Init /\ [][Next]_vars

\* the interpreter runs a started call to its return statement
FairSpec == Spec /\ \A c \in Callers : WF_vars(Return(c))

\* ------------------------------------------------------------- properties
Completed == DOMAIN log
ReturnedCalls == {i \in DOMAIN log : log[i].id # 0}
Record(n) == Dict([employee_name |-> n, salary |-> 5400])

\* C1: for every text passed, the record handed back has employee_name equal
\* to that text, code point for code point (empty, non-ASCII, quotes, blanks,
\* upper case included).
C1_NameEchoed ==
    \A i \in ReturnedCalls : log[i].value.items.employee_name = log[i].arg

C1_Witness ==
    /\ \E i \in ReturnedCalls :
          log[i].arg = JoseOBrien /\ log[i].value.items.employee_name = JoseOBrien
    /\ \E i \in ReturnedCalls :
          log[i].arg = EmptyText /\ log[i].value.items.employee_name = EmptyText
    /\ \E i \in ReturnedCalls :
          log[i].arg = Malformed /\ log[i].value.items.employee_name = Malformed

\* C2: every record handed back has salary 5400, whatever the text passed.
C2_SalaryConstant ==
    \A i \in ReturnedCalls : log[i].value.items.salary = 5400

C2_Witness ==
    \E i, j \in ReturnedCalls :
        /\ Len(log[i].arg) # Len(log[j].arg)
        /\ log[i].value.items.salary = 5400
        /\ log[j].value.items.salary = 5400

\* C3: every invocation that has ended has ended by returning an object; no
\* caller is ever left with a raised exception.
C3_Total ==
    /\ \A c \in Callers : pc[c] # "raised"
    /\ \A i \in Completed : log[i].id \in DOMAIN heap /\ log[i].value.type # "ValueError"

C3_Witness ==
    /\ \E i \in ReturnedCalls : log[i].arg = EmptyText /\ log[i].value = Record(EmptyText)
    /\ \E i \in ReturnedCalls : log[i].arg = Malformed /\ log[i].value = Record(Malformed)

\* C4: two invocations with the same text hand back equal records, whatever
\* was invoked in between.
C4_SameInputSameRecord ==
    \A i, j \in Completed : log[i].arg = log[j].arg => log[i].value = log[j].value

C4_Witness ==
    \E i, k, j \in Completed :
        /\ i < k /\ k < j
        /\ log[i].arg = log[j].arg
        /\ log[k].arg # log[i].arg
        /\ log[i].value = log[j].value

\* C5: the object handed back is a mapping whose keys are exactly
\* employee_name and salary.
C5_ExactKeys ==
    \A i \in ReturnedCalls : DOMAIN log[i].value.items = {"employee_name", "salary"}

C5_Witness ==
    \E i \in ReturnedCalls :
        /\ log[i].arg = JoseOBrien
        /\ log[i].value.items = [employee_name |-> JoseOBrien, salary |-> 5400]

\* C6: under every interleaving of invocations, a caller that has returned
\* holds the record built from the text it passed itself, never from a text
\* another caller passed.
C6_OwnRecord ==
    \A c \in Callers :
        pc[c] = "returned" =>
            /\ result[c] \in DOMAIN log
            /\ log[result[c]].id = result[c]
            /\ log[result[c]].value.items = [employee_name |-> arg[c], salary |-> 5400]
            /\ \A d \in Callers \ {c} :
                  arg[d] # arg[c] => log[result[c]].value.items.employee_name # arg[d]

C6_Witness ==
    \E c, d \in Callers :
        /\ c # d
        /\ pc[c] = "returned" /\ pc[d] = "returned"
        /\ arg[c] # arg[d]
        /\ overlapped[c]
        /\ log[result[c]].value.items.employee_name = arg[c]
        /\ log[result[d]].value.items.employee_name = arg[d]

\* C7: every invocation hands back an object that did not exist before and
\* that holds the unmodified record; a write into one object is done by a
\* caller that received it and changes no other object; once the script is
\* loaded, the server object and the module namespace never change.
C7_Step ==
    /\ script_pc = "eof" => mcp' = mcp /\ module_globals' = module_globals
    /\ \A id \in DOMAIN heap :
          /\ id \in DOMAIN heap'
          /\ heap'[id] # heap[id] =>
                /\ \E c \in Callers : Owns(c, id)
                /\ log' = log
                /\ \A j \in DOMAIN heap \ {id} : heap'[j] = heap[j]
    /\ Len(log') > Len(log) =>
          LET e == log'[Len(log')] IN
          /\ e.id \notin DOMAIN heap
          /\ e.id \in DOMAIN heap'
          /\ heap'[e.id] = Record(e.arg)
          /\ e.value = Record(e.arg)

C7_FreshAndUnshared == [][C7_Step]_vars

C7_Witness ==
    \E i, j, k \in ReturnedCalls :
        /\ i < j /\ j < k
        /\ log[j].arg = log[k].arg
        /\ heap[log[i].id] = log[i].value
        /\ heap[log[j].id] # log[j].value
        /\ heap[log[k].id] = Record(log[k].arg)
        /\ mcp.tools = {"get_employee_info"}

\* C8: an invocation that has entered the function body reaches its return;
\* it waits for no other invocation.
C8_Terminates ==
    \A c \in Callers : (pc[c] = "line6") ~> (pc[c] = "returned")

C8_Witness ==
    \E c, d \in Callers :
        /\ c # d
        /\ pc[c] = "returned"
        /\ pc[d] = "line6"
        /\ overlapped[c]

\* C9: the object handed back has the type of the return annotation, str.
C9_ReturnsStr ==
    \A i \in ReturnedCalls : log[i].value.type = "str"

\* C10: once the script has run to its end, the server 'Python-MCP-Server'
\* holds exactly the tool get_employee_info and is serving requests.
C10_RegisteredAndServing ==
    script_pc = "eof" =>
        /\ mcp.name = "Python-MCP-Server"
        /\ mcp.tools = {"get_employee_info"}
        /\ mcp.running

====
